---- MODULE Spec2Model ----
(***************************************************************************)
(* Model of the ElastiCache ReplicationGroup construct                     *)
(* (aws-elasticache/lib/replication-group.ts, kept as src/unnamed/part_001)*)
(* and of the unit tests that drive it (src/unnamed/part_000).             *)
(*                                                                         *)
(* An optional property is a sequence of length at most one: <<>> is       *)
(* JavaScript's undefined and <<v>> is the value v.  Pass-through          *)
(* properties that no decision of the constructor reads (description,      *)
(* port, engine version, windows, node type) are left out of the props     *)
(* record.                                                                 *)
(***************************************************************************)
EXTENDS Integers, Sequences, FiniteSets, TLC

VARIABLES
  pc,        \* where the test stands: "fresh", "constructed", "threw" or "imported"
  props,     \* the props of the constructor call, if one was made
  attrs,     \* the attributes of the import call, if one was made
  tree,      \* the constructs registered in the stack by the call
  resource,  \* the properties handed to CfnReplicationGroup, if it was created
  handle,    \* replicationGroupId, endpoints and connections of the result
  error      \* the message of the Error the constructor threw, or NoError

vars == <<pc, props, attrs, tree, resource, handle, error>>

(***************************************************************************)
(* Bounds of the explored inputs.                                          *)
(***************************************************************************)
MaxNodeGroups == 3
MaxCacheClusters == 1
MaxReplicas == 2

(***************************************************************************)
(* JavaScript values.                                                      *)
(***************************************************************************)
Undefined == <<>>

IsDefined(x) == x # Undefined

\* truthiness of an optional number: undefined and 0 are falsy
TruthyNum(x) == IsDefined(x) /\ x[1] # 0

\* truthiness of an optional boolean: undefined and false are falsy
TruthyBool(x) == IsDefined(x) /\ x[1] = TRUE

\* x === false
IsFalse(x) == IsDefined(x) /\ x[1] = FALSE

OptNum(max) == {Undefined} \cup {<<n>> : n \in 0..max}

OptBool == {Undefined, <<TRUE>>, <<FALSE>>}

(***************************************************************************)
(* Collaborator handles the tests pass in.                                 *)
(***************************************************************************)
\* kms.Key(stack, 'Key'): the handle and the ARN it renders to
Keys == {"Key"}

KeyArn(key) == [name |-> "Fn::GetAtt", of |-> key, attr |-> "Arn"]

\* ec2.SecurityGroup.fromSecurityGroupId(stack, 'SG', id, { allowAllOutbound })
ImportedSecurityGroups ==
  { [securityGroupId |-> "sg-123456789", allowAllOutbound |-> FALSE],
    [securityGroupId |-> "SecurityGroupId12345", allowAllOutbound |-> TRUE] }

\* SubnetGroup.fromSubnetGroupName(stack, 'Group', name)
ImportedSubnetGroups ==
  { [subnetGroupName |-> "my-existing-ReplicationGroup-subnet-group"] }

RemovalPolicies == {"destroy", "retain", "snapshot"}

\* RemovalPolicy.DESTROY, the default of the constructor
DefaultRemovalPolicy == "destroy"

(***************************************************************************)
(* ReplicationGroupProps: the fields the constructor decides on.           *)
(***************************************************************************)
ReplicationGroupProps ==
  [ numberOfNodeGroups       : OptNum(MaxNodeGroups),
    numberOfCacheClusters    : OptNum(MaxCacheClusters),
    replicasPerNodeGroup     : OptNum(MaxReplicas),
    multiAzEnabled           : OptBool,
    automaticFailoverEnabled : OptBool,
    clusterModeEnabled       : OptBool,
    atRestEncrypted          : OptBool,
    encryptionKey            : {Undefined} \cup {<<k>> : k \in Keys},
    securityGroups           : {Undefined, << <<>> >>} \cup
                               {<< <<sg>> >> : sg \in ImportedSecurityGroups},
    subnetGroup              : {Undefined} \cup {<<g>> : g \in ImportedSubnetGroups},
    removalPolicy            : {Undefined} \cup {<<r>> : r \in RemovalPolicies} ]

(***************************************************************************)
(* Error messages thrown by the constructor.                               *)
(***************************************************************************)
NoError == ""

ErrMutuallyExclusive ==
  "Property NumCacheCluster cannot be defined along with Properties NumNodeGroups, ReplicasPerNodeGroup or NodeGroupConfiguration"

ErrMultiAzUnderClusterMode == "multiAZEnabled must be true, if clusterModeEnabled."

ErrNodeGroupsUnderClusterMode == "Number of node groups must be >2 when cluster mode is enabled"

ErrFailoverUnderClusterMode == "automaticFailoverEnabled must be true when clusterModeEnabled is true."

ErrFailoverUnderMultiAz == "Automatic Failover cannot be disabled for Multi-AZ enabled Replication Group"

ErrReplicaUnderMultiAz == "Must have at least one replica, if multiAZEnaled is true"

ErrKeyWithoutEncryption == "Cannot set property encryptionKey without enabling encryption!"

(***************************************************************************)
(* ReplicationGroup.validateNodeCount: the first rule that fails throws.   *)
(***************************************************************************)
validateNodeCount(p) ==
  IF /\ TruthyNum(p.numberOfCacheClusters)
     /\ (TruthyNum(p.numberOfNodeGroups) \/ TruthyNum(p.replicasPerNodeGroup))
    THEN ErrMutuallyExclusive
  ELSE IF TruthyBool(p.clusterModeEnabled) /\ IsFalse(p.multiAzEnabled)
    THEN ErrMultiAzUnderClusterMode
  ELSE IF /\ TruthyBool(p.clusterModeEnabled)
          /\ IsDefined(p.numberOfNodeGroups)
          /\ p.numberOfNodeGroups[1] = 1
    THEN ErrNodeGroupsUnderClusterMode
  ELSE IF TruthyBool(p.clusterModeEnabled) /\ IsFalse(p.automaticFailoverEnabled)
    THEN ErrFailoverUnderClusterMode
  ELSE IF TruthyBool(p.multiAzEnabled) /\ IsFalse(p.automaticFailoverEnabled)
    THEN ErrFailoverUnderMultiAz
  ELSE IF /\ TruthyBool(p.multiAzEnabled)
          /\ IsDefined(p.replicasPerNodeGroup)
          /\ p.replicasPerNodeGroup[1] < 1
    THEN ErrReplicaUnderMultiAz
  ELSE NoError

\* encryptionKeyCheck with the key test inverted
encryptionKeyCheck_InvertedKey(p) ==
  IF IsFalse(p.atRestEncrypted) /\ ~IsDefined(p.encryptionKey)
    THEN ErrKeyWithoutEncryption
    ELSE NoError

\* the check that follows validateNodeCount in the constructor
encryptionKeyCheck(p) ==
  IF IsFalse(p.atRestEncrypted) /\ IsDefined(p.encryptionKey)
    THEN ErrKeyWithoutEncryption
    ELSE NoError

\* what the constructor throws: validateNodeCount first, then the key check
constructorError(p) ==
  IF validateNodeCount(p) # NoError
    THEN validateNodeCount(p)
    ELSE encryptionKeyCheck(p)

(***************************************************************************)
(* The "Cluster & Scaling" and "Encryption" fields of CfnReplicationGroup. *)
(***************************************************************************)
\* automaticFailoverEnabled without the explicit flag:
\* props.clusterModeEnabled || props.multiAzEnabled || false
automaticFailoverEnabled_NoExplicit(p) ==
  IF TruthyBool(p.clusterModeEnabled) THEN TRUE
  ELSE IF TruthyBool(p.multiAzEnabled) THEN TRUE
  ELSE FALSE

\* props.clusterModeEnabled || props.automaticFailoverEnabled || props.multiAzEnabled || false
automaticFailoverEnabled(p) ==
  IF TruthyBool(p.clusterModeEnabled) THEN TRUE
  ELSE IF TruthyBool(p.automaticFailoverEnabled) THEN TRUE
  ELSE IF TruthyBool(p.multiAzEnabled) THEN TRUE
  ELSE FALSE

\* numNodeGroups that emits the explicit count:
\* props.numberOfNodeGroups ?? (props.clusterModeEnabled ? 2 : 1)
numNodeGroups_Explicit(p) ==
  IF IsDefined(p.numberOfNodeGroups) THEN p.numberOfNodeGroups[1]
  ELSE IF TruthyBool(p.clusterModeEnabled) THEN 2 ELSE 1

\* numNodeGroups with the branches of the conditional swapped
numNodeGroups_Swapped(p) ==
  IF TruthyNum(p.numberOfNodeGroups) \/ TruthyBool(p.clusterModeEnabled) THEN 1 ELSE 2

\* props.numberOfNodeGroups || props.clusterModeEnabled ? 2 : 1
\* parses as (props.numberOfNodeGroups || props.clusterModeEnabled) ? 2 : 1
numNodeGroups(p) ==
  IF TruthyNum(p.numberOfNodeGroups) \/ TruthyBool(p.clusterModeEnabled) THEN 2 ELSE 1

\* replicasPerNodeGroup without the multi-AZ default: props.replicasPerNodeGroup ? 1 : 0
replicasPerNodeGroup_NoMultiAz(p) ==
  IF TruthyNum(p.replicasPerNodeGroup) THEN 1 ELSE 0

\* props.replicasPerNodeGroup || props.multiAzEnabled ? 1 : 0
\* parses as (props.replicasPerNodeGroup || props.multiAzEnabled) ? 1 : 0
replicasPerNodeGroup(p) ==
  IF TruthyNum(p.replicasPerNodeGroup) \/ TruthyBool(p.multiAzEnabled) THEN 1 ELSE 0

\* props.encryptionKey && props.encryptionKey.keyArn
kmsKeyId(p) ==
  IF IsDefined(p.encryptionKey) THEN <<KeyArn(p.encryptionKey[1])>> ELSE Undefined

\* props.atRestEncrypted ?? true
atRestEncryptionEnabled(p) ==
  IF IsDefined(p.atRestEncrypted) THEN p.atRestEncrypted[1] ELSE TRUE

\* removalPolicyOf that ignores props.removalPolicy
removalPolicyOf_AlwaysDefault(p) == DefaultRemovalPolicy

\* props.removalPolicy ?? RemovalPolicy.DESTROY
removalPolicyOf(p) ==
  IF IsDefined(p.removalPolicy) THEN p.removalPolicy[1] ELSE DefaultRemovalPolicy

(***************************************************************************)
(* The construct tree of the stack: one record per construct registered.   *)
(***************************************************************************)
Child(id, type, policy) == [id |-> id, type |-> type, removalPolicy |-> policy]

\* super(scope, id): the construct registers itself in the owning scope
SelfNode == Child("rg", "ReplicationGroup", Undefined)

\* new SubnetGroup(this, 'Subnets', { ..., removalPolicy })
DefaultSubnetGroupNode(p) ==
  Child("rg/Subnets", "AWS::ElastiCache::SubnetGroup", <<removalPolicyOf(p)>>)

DefaultSubnetGroup == [subnetGroupName |-> "Ref:rg/Subnets"]

\* new ec2.SecurityGroup(this, 'SecurityGroup', { description, vpc })
DefaultSecurityGroupNode == Child("rg/SecurityGroup", "AWS::EC2::SecurityGroup", Undefined)

DefaultSecurityGroup ==
  [securityGroupId |-> "GetAtt:rg/SecurityGroup.GroupId", allowAllOutbound |-> TRUE]

\* new CfnReplicationGroup(this, 'Resource', ...) and applyRemovalPolicy
ResourceNode(p) ==
  Child("rg/Resource", "AWS::ElastiCache::ReplicationGroup", <<removalPolicyOf(p)>>)

\* props.subnetGroup ?? new SubnetGroup(...)
subnetGroupOf(p) ==
  IF IsDefined(p.subnetGroup) THEN p.subnetGroup[1] ELSE DefaultSubnetGroup

\* securityGroupsOf that always uses the default group
securityGroupsOf_AlwaysDefault(p) == <<DefaultSecurityGroup>>

\* props.securityGroups ?? [new ec2.SecurityGroup(...)]
securityGroupsOf(p) ==
  IF IsDefined(p.securityGroups) THEN p.securityGroups[1] ELSE <<DefaultSecurityGroup>>

\* the constructs registered before validateNodeCount is called
NetworkNodes(p) ==
  (IF IsDefined(p.subnetGroup) THEN {} ELSE {DefaultSubnetGroupNode(p)})
  \cup (IF IsDefined(p.securityGroups) THEN {} ELSE {DefaultSecurityGroupNode})

\* the properties handed to CfnReplicationGroup
CfnReplicationGroupProps(p) ==
  [ securityGroupIds         |-> [i \in DOMAIN securityGroupsOf(p) |->
                                    securityGroupsOf(p)[i].securityGroupId],
    cacheSubnetGroupName     |-> subnetGroupOf(p).subnetGroupName,
    automaticFailoverEnabled |-> automaticFailoverEnabled(p),
    numCacheClusters         |-> p.numberOfCacheClusters,
    numNodeGroups            |-> numNodeGroups(p),
    replicasPerNodeGroup     |-> replicasPerNodeGroup(p),
    multiAzEnabled           |-> p.multiAzEnabled,
    kmsKeyId                 |-> kmsKeyId(p),
    atRestEncryptionEnabled  |-> atRestEncryptionEnabled(p) ]

(***************************************************************************)
(* Endpoints and the public handle.                                        *)
(***************************************************************************)
\* new Endpoint(address, port)
Endpoint(address, port) == [hostname |-> address, port |-> port]

\* Token.asNumber(replicationGroup.attrPrimaryEndPointPort): a number that
\* stands for the deferred attribute (negative, so no real port equals it)
PrimaryPortToken == -1

\* Token.asNumber(replicationGroup.attrReaderEndPointPort)
ReaderPortToken == -2

\* new ec2.Connections({ securityGroups, defaultPort: ec2.Port.tcp(port) })
Connections(securityGroups, port) ==
  [securityGroups |-> securityGroups, defaultPort |-> [protocol |-> "tcp", port |-> port]]

\* the fields of a constructed ReplicationGroup
ConstructedHandle(p) ==
  [ replicationGroupId |-> "Ref:rg/Resource",
    primaryEndpoint    |-> Endpoint("GetAtt:rg/Resource.PrimaryEndPoint.Address", PrimaryPortToken),
    readerEndpoint     |-> Endpoint("GetAtt:rg/Resource.ReaderEndPoint.Address", ReaderPortToken),
    connections        |-> Connections(securityGroupsOf(p), PrimaryPortToken) ]

\* ReplicationGroupAttributes, as the tests and callers supply them
Ports == {0, 1234, 4321}

ReplicationGroupAttributes ==
  [ securityGroups         : {Undefined, << <<>> >>} \cup
                             {<< <<sg>> >> : sg \in ImportedSecurityGroups},
    replicationGroupId     : {"identifier"},
    primaryEndpointAddress : {"addr"},
    primaryEndpointPort    : Ports,
    readerEndpointAddress  : {"readr"},
    readerEndpointPort     : Ports ]

\* ImportedHandle with the default port taken from the reader endpoint
ImportedHandle_ReaderPort(a) ==
  [ replicationGroupId |-> a.replicationGroupId,
    primaryEndpoint    |-> Endpoint(a.primaryEndpointAddress, a.primaryEndpointPort),
    readerEndpoint     |-> Endpoint(a.readerEndpointAddress, a.readerEndpointPort),
    connections        |-> Connections(IF IsDefined(a.securityGroups)
                                         THEN a.securityGroups[1] ELSE <<>>,
                                       a.readerEndpointPort) ]

\* the fields of class Import; Connections takes no security groups as none
ImportedHandle(a) ==
  [ replicationGroupId |-> a.replicationGroupId,
    primaryEndpoint    |-> Endpoint(a.primaryEndpointAddress, a.primaryEndpointPort),
    readerEndpoint     |-> Endpoint(a.readerEndpointAddress, a.readerEndpointPort),
    connections        |-> Connections(IF IsDefined(a.securityGroups)
                                         THEN a.securityGroups[1] ELSE <<>>,
                                       a.primaryEndpointPort) ]

(***************************************************************************)
(* The state machine: a fresh test stack, then one call on it.             *)
(***************************************************************************)
Init ==
  /\ pc = "fresh"
  /\ props = Undefined
  /\ attrs = Undefined
  /\ tree = {}
  /\ resource = Undefined
  /\ handle = Undefined
  /\ error = NoError

\* new ReplicationGroup(stack, 'rg', p): the whole constructor.  A throw
\* leaves in the tree what was registered before it.
NewReplicationGroup(p) ==
  /\ pc = "fresh"
  /\ props' = <<p>>
  /\ attrs' = attrs
  /\ error' = constructorError(p)
  /\ IF constructorError(p) # NoError
       THEN /\ pc' = "threw"
            /\ tree' = tree \cup {SelfNode} \cup NetworkNodes(p)
            /\ resource' = Undefined
            /\ handle' = Undefined
       ELSE /\ pc' = "constructed"
            /\ tree' = tree \cup {SelfNode} \cup NetworkNodes(p) \cup {ResourceNode(p)}
            /\ resource' = <<CfnReplicationGroupProps(p)>>
            /\ handle' = <<ConstructedHandle(p)>>

\* ReplicationGroup.fromReplicationGroupAttributes(stack, 'rg', a)
FromReplicationGroupAttributes(a) ==
  /\ pc = "fresh"
  /\ pc' = "imported"
  /\ attrs' = <<a>>
  /\ tree' = tree \cup {SelfNode}
  /\ handle' = <<ImportedHandle(a)>>
  /\ UNCHANGED <<props, resource, error>>

\* beforeEach: stack = testStack()
TestStack ==
  /\ pc # "fresh"
  /\ pc' = "fresh"
  /\ props' = Undefined
  /\ attrs' = Undefined
  /\ tree' = {}
  /\ resource' = Undefined
  /\ handle' = Undefined
  /\ error' = NoError

\* the inputs are drawn only where a call is possible (a fresh stack)
Next ==
  \/ pc = "fresh" /\ \E p \in ReplicationGroupProps : NewReplicationGroup(p)
  \/ pc = "fresh" /\ \E a \in ReplicationGroupAttributes : FromReplicationGroupAttributes(a)
  \/ TestStack

Spec == Init /\ [][Next]_vars

(***************************************************************************)
(* Properties of the constructor.                                          *)
(***************************************************************************)
\* the constructor was called and returned or threw
Called == pc \in {"constructed", "threw"}

Accepted == pc = "constructed"

Rejected == pc = "threw" /\ error # NoError

\* C1: whenever construction fails with a configuration error, no default
\* subnet group and no default security group has been registered in the
\* owning scope.
C1_NothingCreatedOnError ==
  pc = "threw" =>
    \A n \in tree : n.type \notin {"AWS::ElastiCache::SubnetGroup", "AWS::EC2::SecurityGroup"}

\* C2: for every accepted spec the emitted numNodeGroups is the explicit
\* numberOfNodeGroups when one is supplied, otherwise 2 under cluster mode
\* and 1 without it.
C2_NumNodeGroupsExplicitOrDefault ==
  Accepted =>
    resource[1].numNodeGroups =
      IF IsDefined(props[1].numberOfNodeGroups) THEN props[1].numberOfNodeGroups[1]
      ELSE IF props[1].clusterModeEnabled = <<TRUE>> THEN 2 ELSE 1

\* C3: for every accepted spec the emitted replicasPerNodeGroup is the
\* explicit replicasPerNodeGroup when one is supplied, otherwise 1 under
\* multi-AZ and 0 without it.
C3_ReplicasExplicitOrDefault ==
  Accepted =>
    resource[1].replicasPerNodeGroup =
      IF IsDefined(props[1].replicasPerNodeGroup) THEN props[1].replicasPerNodeGroup[1]
      ELSE IF props[1].multiAzEnabled = <<TRUE>> THEN 1 ELSE 0

C5_CacheClustersExclusive ==
  ( /\ Called
    /\ IsDefined(props[1].numberOfCacheClusters)
    /\ (IsDefined(props[1].numberOfNodeGroups) \/ IsDefined(props[1].replicasPerNodeGroup)) )
  => (pc = "threw" /\ error = ErrMutuallyExclusive)

\* The seven rules as the claim numbers them, each on the explicit values.
RuleViolated(i, p) ==
  CASE i = 1 -> /\ IsDefined(p.numberOfCacheClusters)
                /\ (IsDefined(p.numberOfNodeGroups) \/ IsDefined(p.replicasPerNodeGroup))
    [] i = 2 -> p.clusterModeEnabled = <<TRUE>> /\ p.multiAzEnabled = <<FALSE>>
    [] i = 3 -> p.clusterModeEnabled = <<TRUE>> /\ p.numberOfNodeGroups = <<1>>
    [] i = 4 -> p.clusterModeEnabled = <<TRUE>> /\ p.automaticFailoverEnabled = <<FALSE>>
    [] i = 5 -> p.multiAzEnabled = <<TRUE>> /\ p.automaticFailoverEnabled = <<FALSE>>
    [] i = 6 -> /\ p.multiAzEnabled = <<TRUE>>
                /\ IsDefined(p.replicasPerNodeGroup)
                /\ p.replicasPerNodeGroup[1] < 1
    [] i = 7 -> p.atRestEncrypted = <<FALSE>> /\ IsDefined(p.encryptionKey)

RuleError(i) ==
  CASE i = 1 -> ErrMutuallyExclusive
    [] i = 2 -> ErrMultiAzUnderClusterMode
    [] i = 3 -> ErrNodeGroupsUnderClusterMode
    [] i = 4 -> ErrFailoverUnderClusterMode
    [] i = 5 -> ErrFailoverUnderMultiAz
    [] i = 6 -> ErrReplicaUnderMultiAz
    [] i = 7 -> ErrKeyWithoutEncryption

ViolatedRules(p) == {i \in 1..7 : RuleViolated(i, p)}

LowestViolatedRule(p) ==
  CHOOSE i \in ViolatedRules(p) : \A j \in ViolatedRules(p) : i <= j

\* C6: when a spec violates more than one of the seven rules, the error
\* raised is that of the lowest-numbered violated rule.
C6_FirstViolatedRuleWins ==
  (Called /\ Cardinality(ViolatedRules(props[1])) > 1)
  => error = RuleError(LowestViolatedRule(props[1]))

\* C7: under clusterModeEnabled = true, an explicit numberOfNodeGroups
\* below 2, automaticFailoverEnabled = false or multiAzEnabled = false is a
\* configuration error, and every emitted resource has numNodeGroups >= 2
\* and automaticFailoverEnabled = true.
C7_ClusterModeCombination ==
  (Called /\ props[1].clusterModeEnabled = <<TRUE>>) =>
    /\ ( \/ ( /\ IsDefined(props[1].numberOfNodeGroups)
              /\ props[1].numberOfNodeGroups[1] < 2 )
         \/ props[1].automaticFailoverEnabled = <<FALSE>>
         \/ props[1].multiAzEnabled = <<FALSE>> )
       => Rejected
    /\ Accepted =>
         /\ resource[1].numNodeGroups >= 2
         /\ resource[1].automaticFailoverEnabled = TRUE

NoTopologyExcept(p, fields) ==
  \A f \in {"numberOfNodeGroups", "numberOfCacheClusters", "replicasPerNodeGroup",
            "multiAzEnabled", "automaticFailoverEnabled", "clusterModeEnabled"} \ fields :
    p[f] = Undefined

NoEncryptionFields(p) == p.atRestEncrypted = Undefined /\ p.encryptionKey = Undefined

NodesOfType(type) == {n \in tree : n.type = type}

SecurityGroupIdsOf(groups) == [i \in DOMAIN groups |-> groups[i].securityGroupId]

\* C11: for security groups and, independently, for the subnet group:
\* supplied handles mean that no resource of that kind is created and the
\* emitted resource references exactly the supplied handles; none supplied
\* means that exactly one default resource of that kind is created and
\* referenced.
C11_SuppliedOrDefaultNetwork ==
  /\ (Called /\ IsDefined(props[1].securityGroups))
       => NodesOfType("AWS::EC2::SecurityGroup") = {}
  /\ (Called /\ IsDefined(props[1].subnetGroup))
       => NodesOfType("AWS::ElastiCache::SubnetGroup") = {}
  /\ Accepted =>
       /\ IF IsDefined(props[1].securityGroups)
            THEN /\ resource[1].securityGroupIds = SecurityGroupIdsOf(props[1].securityGroups[1])
                 /\ handle[1].connections.securityGroups = props[1].securityGroups[1]
            ELSE /\ NodesOfType("AWS::EC2::SecurityGroup") = {DefaultSecurityGroupNode}
                 /\ resource[1].securityGroupIds = <<DefaultSecurityGroup.securityGroupId>>
                 /\ handle[1].connections.securityGroups = <<DefaultSecurityGroup>>
       /\ IF IsDefined(props[1].subnetGroup)
            THEN resource[1].cacheSubnetGroupName = props[1].subnetGroup[1].subnetGroupName
            ELSE /\ Cardinality(NodesOfType("AWS::ElastiCache::SubnetGroup")) = 1
                 /\ \A n \in NodesOfType("AWS::ElastiCache::SubnetGroup") : n.id = "rg/Subnets"
                 /\ resource[1].cacheSubnetGroupName = DefaultSubnetGroup.subnetGroupName

\* a supplied security group with a default subnet group: the two choices
\* are independent
C11_Witness ==
  /\ Accepted
  /\ IsDefined(props[1].securityGroups)
  /\ Len(props[1].securityGroups[1]) = 1
  /\ props[1].subnetGroup = Undefined
  /\ NodesOfType("AWS::EC2::SecurityGroup") = {}
  /\ Cardinality(NodesOfType("AWS::ElastiCache::SubnetGroup")) = 1
  /\ resource[1].securityGroupIds = SecurityGroupIdsOf(props[1].securityGroups[1])

(***************************************************************************)
(* The import path.                                                        *)
(***************************************************************************)
\* C12: fromReplicationGroupAttributes never validates and never creates a
\* backend resource: for any attributes (port 0 included) it succeeds and
\* returns a handle whose id and endpoints are the supplied values, and
\* whose connections hold exactly the supplied security-group handles (their
\* egress policy unchanged) with the primary endpoint port as default port.
C12_ImportVerbatim ==
  /\ pc = "fresh" =>
       \A a \in ReplicationGroupAttributes : ENABLED FromReplicationGroupAttributes(a)
  /\ pc = "imported" =>
       /\ error = NoError
       /\ resource = Undefined
       /\ \A n \in tree : n = SelfNode
       /\ handle[1].replicationGroupId = attrs[1].replicationGroupId
       /\ handle[1].primaryEndpoint.hostname = attrs[1].primaryEndpointAddress
       /\ handle[1].primaryEndpoint.port = attrs[1].primaryEndpointPort
       /\ handle[1].readerEndpoint.hostname = attrs[1].readerEndpointAddress
       /\ handle[1].readerEndpoint.port = attrs[1].readerEndpointPort
       /\ handle[1].connections.securityGroups =
            (IF IsDefined(attrs[1].securityGroups) THEN attrs[1].securityGroups[1] ELSE <<>>)
       /\ handle[1].connections.defaultPort.port = attrs[1].primaryEndpointPort

\* port 0 and a security group that restricts egress, as in the test
\* 'imported ReplicationGroup with imported security group honors allowAllOutbound'
C12_Witness ==
  /\ pc = "imported"
  /\ attrs[1].primaryEndpointPort = 0
  /\ attrs[1].readerEndpointPort = 4321
  /\ IsDefined(attrs[1].securityGroups)
  /\ Len(attrs[1].securityGroups[1]) = 1
  /\ handle[1].connections.securityGroups[1].allowAllOutbound = FALSE
  /\ handle[1].primaryEndpoint.port = 0

(***************************************************************************)
(* Removal policy.                                                         *)
(***************************************************************************)
\* the policy the caller configured, destroy when none is supplied
ConfiguredPolicy ==
  IF IsDefined(props[1].removalPolicy) THEN props[1].removalPolicy[1] ELSE "destroy"

\* the policy a resource ends up with: one left without a removal policy is
\* deleted with its stack, which is what destroy asks for
EffectivePolicy(n) ==
  IF IsDefined(n.removalPolicy) THEN n.removalPolicy[1] ELSE "destroy"

CreatedResources ==
  NodesOfType("AWS::EC2::SecurityGroup")
    \cup NodesOfType("AWS::ElastiCache::SubnetGroup")
    \cup NodesOfType("AWS::ElastiCache::ReplicationGroup")

\* C13 as stated: every child resource a successful construction creates
\* (default security group, default subnet group, replication-group
\* resource) carries the configured removal policy, destroy when none is
\* supplied.
C13_EveryChildCarriesPolicy ==
  Accepted => \A n \in CreatedResources : EffectivePolicy(n) = ConfiguredPolicy

\* C13 as amended: the default subnet group and the replication-group
\* resource of a successful construction carry the configured removal
\* policy, destroy when none is supplied; the default security group is
\* created with no removal policy.
C13_SubnetGroupAndResourceCarryPolicy ==
  Accepted =>
    /\ \A n \in NodesOfType("AWS::ElastiCache::SubnetGroup") :
         n.removalPolicy = <<ConfiguredPolicy>>
    /\ \A n \in NodesOfType("AWS::ElastiCache::ReplicationGroup") :
         n.removalPolicy = <<ConfiguredPolicy>>
    /\ Cardinality(NodesOfType("AWS::ElastiCache::ReplicationGroup")) = 1
    /\ \A n \in NodesOfType("AWS::EC2::SecurityGroup") : n.removalPolicy = Undefined

\* retain is configured and all three resources are created
C13_Witness ==
  /\ Accepted
  /\ props[1].removalPolicy = <<"retain">>
  /\ props[1].securityGroups = Undefined
  /\ props[1].subnetGroup = Undefined
  /\ Cardinality(CreatedResources) = 3
  /\ \E n \in NodesOfType("AWS::ElastiCache::SubnetGroup") : n.removalPolicy = <<"retain">>
  /\ \E n \in NodesOfType("AWS::EC2::SecurityGroup") : n.removalPolicy = Undefined

====
